---- MODULE Spec2Model ----
(***************************************************************************)
(* TextToSQL (src/src/main.py): a LangGraph state machine                  *)
(*   START -> get_schema -> get_schema_description -> get_sql_query        *)
(*   get_sql_query -> tools | END   (tools_condition)                      *)
(*   tools -> get_sql_query                                                *)
(* over the State {schema, messages}, with the SQLite adapter              *)
(* sql_connector and the web search tool.                                  *)
(*                                                                         *)
(* Python values are modelled as follows: a list or tuple is a TLA+        *)
(* sequence; the adapter's error text is the sequence of its characters    *)
(* (get_schema iterates over it); texts produced by the reasoning engine,  *)
(* the search tool and the caller are opaque TLA+ strings.                 *)
(***************************************************************************)
EXTENDS Integers, Sequences, FiniteSets, TLC

VARIABLES
    pc,                \* position of the run: "idle", a graph node, "__end__" or "raised"
    schema,            \* State["schema"]
    messages,          \* State["messages"]
    store,             \* contents of database/movies.db
    step,              \* supersteps (node executions) of the current graph.invoke
    session,           \* number of sql_agent calls made so far
    next_id,           \* source of fresh message / tool-call identifiers
    result,            \* what the last sql_agent call returned or raised
    llm_input,         \* message list handed to the engine by the latest llm.invoke
    engine,            \* behaviour of the engine in this session: "free" | "persistent"
    handle_tool_errors,\* ToolNode's handle_tool_errors default of the installed langgraph
    described,         \* the narrative produced by the Describer in this session
    schema_writes,     \* number of writes to State["schema"] in this session
    introspected,      \* every get_schema call: store before and after, state, structure
    question,          \* the argument of the current sql_agent call
    unclosed           \* a connection opened by a finished sql_connector call is open

vars == <<pc, schema, messages, store, step, session, next_id, result, llm_input,
          engine, handle_tool_errors, described, schema_writes, introspected, question,
          unclosed>>

----------------------------------------------------------------------------
(* Bounds of the model *)

\* tool requests a free engine may issue in one session (over all its turns)
MaxRequests == 2
\* sql_agent calls
MaxSessions == 2

\* supersteps one graph.invoke may run: sql_agent passes no config, which
\* leaves langgraph's default recursion_limit in force
RecursionLimit == 25

----------------------------------------------------------------------------
(* Constants of the source *)

SQL_SCHEMA_QUERY == "WITH column_info AS (...) SELECT column_name, data_type FROM column_info;"
SQL_EXAMPLE_QUERY == "SELECT * FROM movies LIMIT 5"
SQL_SCHEMA_DETAILS_PROMPT == "You are expert in writing SQLite queries. ..."
SYSTEM_PROMPT == "You are an advanced SQLite query specialist. ..."
ExampleLimit == 5

NoValue == [t |-> "unset"]
NoResult == [kind |-> "none"]
END == "__end__"

\* f"Error occurred during sql execution: {e}" up to the exception text
ErrorPrefix == <<"E", "r", "r", "o", "r", " ", "o", "c", "c", "u", "r", "r", "e", "d",
                 " ", "d", "u", "r", "i", "n", "g", " ", "s", "q", "l", " ", "e", "x",
                 "e", "c", "u", "t", "i", "o", "n", ":", " ">>

----------------------------------------------------------------------------
(* The SQLite engine, as far as the queries of the model exercise it *)

MsgNoSuchTable == <<"n", "o", " ", "s", "u", "c", "h", " ", "t", "a", "b", "l", "e",
                    ":", " ", "m", "o", "v", "i", "e", "s">>
MsgSyntax == <<"n", "e", "a", "r", " ", "\"", "S", "E", "L", "E", "C", "\"", ":", " ",
               "s", "y", "n", "t", "a", "x", " ", "e", "r", "r", "o", "r">>
\* str() of the UnicodeEncodeError that cursor.execute raises for Q_SURROGATE
MsgSurrogate == <<"'", "u", "t", "f", "-", "8", "'", " ", "c", "o", "d", "e",
                  "c", " ", "c", "a", "n", "'", "t", " ", "e", "n", "c", "o",
                  "d", "e", " ", "c", "h", "a", "r", "a", "c", "t", "e", "r",
                  " ", "'", "\\", "u", "d", "8", "0", "0", "'", " ", "i", "n",
                  " ", "p", "o", "s", "i", "t", "i", "o", "n", " ", "8", ":",
                  " ", "s", "u", "r", "r", "o", "g", "a", "t", "e", "s", " ",
                  "n", "o", "t", " ", "a", "l", "l", "o", "w", "e", "d">>

\* a database with the movies table and two rows (one budget missing)
StoreFull ==
    [file  |-> TRUE,
     table |-> TRUE,
     cols  |-> << <<"title", "TEXT">>, <<"budget", "TEXT">> >>,
     rows  |-> << <<"Example Film", "15000000">>, <<"Other Film", "None">> >>]
\* a database file without the movies table
StoreNoTable == [file |-> TRUE, table |-> FALSE, cols |-> <<>>, rows |-> <<>>]
\* no file database/movies.db (the directory exists)
StoreAbsent == [file |-> FALSE, table |-> FALSE, cols |-> <<>>, rows |-> <<>>]
\* (the first connect turns StoreAbsent into StoreNoTable)
InitStores == {StoreFull, StoreAbsent}

\* sqlite3.connect("database/movies.db") creates the file if there is none
connect(st) == [st EXCEPT !.file = TRUE]

\* query strings the engine may pass to the store-query tool
Q_SELECT == "SELECT title FROM movies"
Q_SYNTAX == "SELEC"
Q_SURROGATE == "SELECT '\\ud800'"
Q_DELETE == "DELETE FROM movies"
PlannerQueries == {Q_SELECT, Q_SYNTAX, Q_SURROGATE, Q_DELETE}

\* sqlite3.Error and its subclasses: what `except sqlite3.Error` catches
SqliteErrors == {"Error", "InterfaceError", "DatabaseError", "DataError",
                 "OperationalError", "IntegrityError", "InternalError",
                 "ProgrammingError", "NotSupportedError"}

Prefix(s, n) == SubSeq(s, 1, IF n < Len(s) THEN n ELSE Len(s))

\* cursor.execute(q).fetchall() inside `with sqlite3.connect(...)`: the rows and
\* the store after the connection's commit, or the exception raised
Execute(st, q) ==
    CASE q = SQL_SCHEMA_QUERY ->
           [out |-> "rows", rows |-> st.cols, store |-> st]
      [] q = SQL_EXAMPLE_QUERY ->
           IF st.table
           THEN [out |-> "rows", rows |-> Prefix(st.rows, ExampleLimit), store |-> st]
           ELSE [out |-> "raise", cls |-> "OperationalError", msg |-> MsgNoSuchTable]
      [] q = Q_SELECT ->
           IF st.table
           THEN [out |-> "rows", rows |-> [i \in DOMAIN st.rows |-> <<st.rows[i][1]>>],
                 store |-> st]
           ELSE [out |-> "raise", cls |-> "OperationalError", msg |-> MsgNoSuchTable]
      [] q = Q_DELETE ->
           IF st.table
           THEN [out |-> "rows", rows |-> <<>>, store |-> [st EXCEPT !.rows = <<>>]]
           ELSE [out |-> "raise", cls |-> "OperationalError", msg |-> MsgNoSuchTable]
      [] q = Q_SYNTAX ->
           [out |-> "raise", cls |-> "OperationalError", msg |-> MsgSyntax]
      [] q = Q_SURROGATE ->
           [out |-> "raise", cls |-> "UnicodeEncodeError", msg |-> MsgSurrogate]

----------------------------------------------------------------------------
(* sql_connector *)

\* the value of the call: a list of rows, the error text, or a propagated exception.
\* conn is the state of the call's connection when the call ends: the exit of
\* `with sqlite3.connect(...)` commits or rolls back and does not close, and the
\* function has no close() call
sql_connector(st, q) ==
    LET db == connect(st)
        e  == Execute(db, q)
    IN  IF e.out = "rows"
        THEN [kind |-> "return", val |-> [t |-> "list", v |-> e.rows], store |-> e.store,
              conn |-> "open"]
        ELSE IF e.cls \in SqliteErrors
             THEN [kind |-> "return", val |-> [t |-> "str", v |-> ErrorPrefix \o e.msg],
                   store |-> db, conn |-> "open"]
             ELSE [kind |-> "raise", cls |-> e.cls, store |-> db, conn |-> "open"]

\* some call of sql_connector with a query of qs ends with its connection open
LeavesOpen(st, qs) == \E q \in qs : sql_connector(st, q).conn = "open"

----------------------------------------------------------------------------
(* get_schema *)

Min(S) == CHOOSE x \in S : \A y \in S : x <= y

\* Python's zip(*iters): as many tuples as the shortest iterable has items
Zip(iters) ==
    IF iters = <<>> THEN <<>>
    ELSE LET n == Min({Len(iters[j]) : j \in DOMAIN iters})
         IN  [i \in 1..n |-> [j \in DOMAIN iters |-> iters[j][i]]]

\* mutant: the structure also carries the question of the state passed in
get_schema_stateful(state, st) ==
    LET db_schema   == sql_connector(st, SQL_SCHEMA_QUERY).val
        db_examples == sql_connector(st, SQL_EXAMPLE_QUERY).val
    IN  [schema |-> [t |-> "list",
                     v |-> <<state.messages[1].content>> \o db_schema.v \o db_examples.v]]

\* mutant: zip(db_schema, db_examples), the sampled rows not unpacked
get_schema_unstarred(state, st) ==
    LET db_schema   == sql_connector(st, SQL_SCHEMA_QUERY).val
        db_examples == sql_connector(st, SQL_EXAMPLE_QUERY).val
    IN  [schema |-> [t |-> "list", v |-> Zip(<<db_schema.v, db_examples.v>>)]]

\* the store after the two sql_connector calls of get_schema
get_schema_store(st) ==
    sql_connector(sql_connector(st, SQL_SCHEMA_QUERY).store, SQL_EXAMPLE_QUERY).store

\* list(zip(db_schema, *db_examples)); the second query runs on the store the
\* first one left
get_schema(state, st) ==
    LET first       == sql_connector(st, SQL_SCHEMA_QUERY)
        db_schema   == first.val
        db_examples == sql_connector(first.store, SQL_EXAMPLE_QUERY).val
        \* *db_examples: every row, or every character of an error text, is one
        \* more argument of zip (a character iterates as itself)
        unpacked    == IF db_examples.t = "str"
                       THEN [i \in DOMAIN db_examples.v |-> <<db_examples.v[i]>>]
                       ELSE db_examples.v
    IN  [schema |-> [t |-> "list", v |-> Zip(<<db_schema.v>> \o unpacked)]]

----------------------------------------------------------------------------
(* Messages and the add_messages reducer *)

\* identifiers are generated fresh (uuid4 of add_messages, the ids the engine
\* gives its responses and tool calls): the n-th one of the s-th sql_agent call
uuid(s, n) == <<s, n>>
\* the id of a message that was given none
NoId == <<0, 0>>

HumanMessage(id, content) ==
    [type |-> "human", id |-> id, content |-> content, tool_calls |-> <<>>,
     tool_call_id |-> NoId, status |-> "none"]
SystemMessage(content) ==
    [type |-> "system", id |-> NoId, content |-> content, tool_calls |-> <<>>,
     tool_call_id |-> NoId, status |-> "none"]
AIMessage(id, content, calls) ==
    [type |-> "ai", id |-> id, content |-> content, tool_calls |-> calls,
     tool_call_id |-> NoId, status |-> "none"]
ToolMessage(id, content, call_id, status) ==
    [type |-> "tool", id |-> id, content |-> content, tool_calls |-> <<>>,
     tool_call_id |-> call_id, status |-> status]

\* mutant: messages without its reducer, the update overwrites the channel
add_messages_overwrite(left, right) == right

\* langgraph's reducer of State.messages: a message whose id is already in the
\* list replaces that entry, any other message is appended
RECURSIVE add_messages(_, _)
add_messages(left, right) ==
    IF right = <<>> THEN left
    ELSE LET m   == Head(right)
             idx == {i \in DOMAIN left : left[i].id = m.id}
         IN  add_messages(IF idx = {} THEN Append(left, m)
                          ELSE [left EXCEPT ![CHOOSE i \in idx : TRUE] = m],
                          Tail(right))

\* mutant: the unconditional edge get_sql_query -> END decides
tools_condition_end(msgs) == END

\* mutant: the Planner is always followed by the tools node
tools_condition_tools(msgs) == "tools"

\* langgraph.prebuilt.tools_condition: the tool calls of the last message decide
tools_condition(msgs) ==
    IF Len(msgs[Len(msgs)].tool_calls) > 0 THEN "tools" ELSE END

----------------------------------------------------------------------------
(* The reasoning engine and the search tool are opaque: their outputs are inputs *)

Questions == {"Which movie did X act in?", "What is the budget of Other Film?"}
Narratives == {"Column name: title ...", "Column name: budget ..."}
SearchResults == "snippet: ..."
FinalAnswer == "Example Film, 15000000"

SqlRequest(q) == [name |-> "sql_connector", args |-> q]
SearchRequest == [name |-> "search", args |-> "budget of Other Film"]
Requests == {SqlRequest(q) : q \in PlannerQueries} \cup {SearchRequest}

SeqsUpTo(S, k) == UNION {[1..n -> S] : n \in 0..k}

RECURSIVE SumLen(_, _)
SumLen(msgs, i) ==
    IF i > Len(msgs) THEN 0 ELSE Len(msgs[i].tool_calls) + SumLen(msgs, i + 1)
\* tool requests issued so far in the session
Requested(msgs) == SumLen(msgs, 1)

\* the tool requests an engine turn may carry
\* (a "free" engine picks any requests, MaxRequests in all; a "persistent" one
\* asks for the same query turn after turn, for as long as it likes, and may
\* answer on any turn)
Batches(mode, msgs) ==
    IF mode = "persistent" THEN {<<SqlRequest(Q_SELECT)>>, <<>>}
    ELSE SeqsUpTo(Requests, MaxRequests - Requested(msgs))

\* the assistant entry of an engine turn: its id and the ids of its tool calls are fresh
Response(s, n, batch) ==
    AIMessage(uuid(s, n), IF batch = <<>> THEN FinalAnswer ELSE "",
              [i \in DOMAIN batch |->
                  [id |-> uuid(s, n + i), name |-> batch[i].name, args |-> batch[i].args]])

----------------------------------------------------------------------------
(* The Pregel loop of graph.invoke *)

\* mutant: no recursion limit
LoopAfter_unbounded(n, node, sch, msgs) ==
    IF node = END
    THEN [pc |-> END, result |-> [kind |-> "state", schema |-> sch, messages |-> msgs]]
    ELSE [pc |-> node, result |-> NoResult]

\* mutant: at the recursion limit the state reached so far is handed back
LoopAfter_partial(n, node, sch, msgs) ==
    IF n >= RecursionLimit \/ node = END
    THEN [pc |-> END, result |-> [kind |-> "state", schema |-> sch, messages |-> msgs]]
    ELSE [pc |-> node, result |-> NoResult]

\* after superstep n (its writes applied): the status of the loop and what
\* sql_agent hands back, for a loop that checks the recursion limit before it
\* looks for the next node: the run raises GraphRecursionError once
\* RecursionLimit nodes have run; otherwise it returns the State when no
\* node is scheduled (an edge to END schedules nothing).
LoopAfter(n, node, sch, msgs) ==
    IF n >= RecursionLimit
    THEN [pc |-> "raised", result |-> [kind |-> "raise", exc |-> "GraphRecursionError"]]
    ELSE IF node = END
         THEN [pc |-> END,
               result |-> [kind |-> "state", schema |-> sch, messages |-> msgs]]
         ELSE [pc |-> node, result |-> NoResult]

\* the outcomes of the loop after superstep n. When superstep RecursionLimit
\* leaves no node scheduled, a loop that looks for the next node before it
\* checks the limit returns the State; src/ pins no langgraph release, so both
\* orders of the two tests are outcomes
LoopOutcomes(n, node, sch, msgs) ==
    {LoopAfter(n, node, sch, msgs)} \cup
    IF n = RecursionLimit /\ node = END
    THEN {[pc |-> END, result |-> [kind |-> "state", schema |-> sch, messages |-> msgs]]}
    ELSE {}

\* mutant: the tools node is wired to END
Edge_tools_end(node) ==
    CASE node = "get_schema" -> "get_schema_description"
      [] node = "get_schema_description" -> "get_sql_query"
      [] node = "tools" -> END

\* the unconditional edges of get_graph that schedule a node (START -> get_schema
\* is taken by sql_agent; get_sql_query -> END schedules nothing)
Edge(node) ==
    CASE node = "get_schema" -> "get_schema_description"
      [] node = "get_schema_description" -> "get_sql_query"
      [] node = "tools" -> "get_sql_query"

Tick(node, sch, msgs) ==
    \E after \in LoopOutcomes(step + 1, node, sch, msgs) :
        /\ step' = step + 1
        /\ pc' = after.pc
        /\ result' = after.result

Raise(exc) ==
    /\ pc' = "raised"
    /\ result' = [kind |-> "raise", exc |-> exc]
    /\ UNCHANGED step

----------------------------------------------------------------------------
(* ToolNode([sql_connector, search]) *)

\* one tool call; `found` is whether the search capability answers
RunOne(call, st, found) ==
    IF call.name = "sql_connector"
    THEN LET r == sql_connector(st, call.args) IN
         IF r.kind = "return"
         THEN [kind |-> "return", store |-> r.store,
               content |-> IF r.val.t = "str" THEN r.val
                           ELSE [t |-> "json", v |-> r.val.v]]
         ELSE [kind |-> "raise", store |-> r.store, cls |-> r.cls]
    ELSE IF found
         THEN [kind |-> "return", store |-> st,
               content |-> [t |-> "str", v |-> SearchResults]]
         ELSE [kind |-> "raise", store |-> st, cls |-> "DuckDuckGoSearchException"]

\* the calls run on a thread pool: `ord` is the order in which they reach the store
RECURSIVE RunCalls(_, _, _, _, _, _)
RunCalls(calls, ord, found, k, st, outs) ==
    IF k > Len(ord) THEN [store |-> st, outs |-> outs]
    ELSE LET i == ord[k]
             r == RunOne(calls[i], st, found[i])
         IN  RunCalls(calls, ord, found, k + 1, r.store, [outs EXCEPT ![i] = r])

Orders(n) == {o \in [1..n -> 1..n] : \A i, j \in 1..n : i # j => o[i] # o[j]}

\* mutant: the result entry is not tagged with the identifier of its request
ToolResult_untagged(id, call, out) ==
    IF out.kind = "return"
    THEN ToolMessage(id, out.content, NoId, "success")
    ELSE ToolMessage(id, [t |-> "tool_error", v |-> out.cls], NoId, "error")

\* the tool result entry of one outcome (a raised exception, when handled, becomes
\* the text of TOOL_CALL_ERROR_TEMPLATE with status "error")
ToolResult(id, call, out) ==
    IF out.kind = "return"
    THEN ToolMessage(id, out.content, call.id, "success")
    ELSE ToolMessage(id, [t |-> "tool_error", v |-> out.cls], call.id, "error")

Raised(outs) == {i \in DOMAIN outs : outs[i].kind = "raise"}

----------------------------------------------------------------------------
(* The nodes of the graph: each returns an update of the State *)

\* mutant: the Describer also sends the conversation
DescribeInput_with_conversation(state) ==
    <<SystemMessage(SQL_SCHEMA_DETAILS_PROMPT),
      HumanMessage(NoId, [t |-> "repr", v |-> state.schema])>>
    \o state.messages

\* the engine input of get_schema_description
DescribeInput(state) ==
    <<SystemMessage(SQL_SCHEMA_DETAILS_PROMPT),
      HumanMessage(NoId, [t |-> "repr", v |-> state.schema])>>

\* get_schema_description, given the .content of the engine's response
get_schema_description(state, content) == [schema |-> [t |-> "str", v |-> content]]

\* mutant: only the latest entry of the conversation is sent
PlanInput_truncated(state) ==
    <<SystemMessage(SYSTEM_PROMPT),
      HumanMessage(NoId, [t |-> "schema_details", v |-> state.schema]),
      state.messages[Len(state.messages)]>>

\* the engine input of get_sql_query
PlanInput(state) ==
    <<SystemMessage(SYSTEM_PROMPT),
      HumanMessage(NoId, [t |-> "schema_details", v |-> state.schema])>>
    \o state.messages

\* mutant: the Planner also stores the schema restatement it sends to the engine
get_sql_query_schema(state, response) ==
    [messages |-> <<response>>,
     schema   |-> [t |-> "schema_details", v |-> state.schema]]

\* mutant: the Planner returns the whole list it sent together with the response
get_sql_query_all(state, response) ==
    [messages |-> PlanInput(state) \o <<response>>]

\* get_sql_query, given the engine's response (the reducer takes the single
\* message as a list of one)
get_sql_query(state, response) == [messages |-> <<response>>]

\* the channels after an update: schema is overwritten, messages go through
\* the add_messages reducer, a key the update lacks keeps its value
NewSchema(update) ==
    IF "schema" \in DOMAIN update THEN update.schema ELSE schema
NewMessages(update) ==
    IF "messages" \in DOMAIN update THEN add_messages(messages, update.messages)
    ELSE messages
SchemaWrites(update) ==
    IF "schema" \in DOMAIN update THEN schema_writes + 1 ELSE schema_writes

Write(update, node) ==
    /\ schema' = NewSchema(update)
    /\ messages' = NewMessages(update)
    /\ schema_writes' = SchemaWrites(update)
    /\ Tick(node, NewSchema(update), NewMessages(update))

\* mutant: every exception raised by a tool leaves ToolNode
Propagates_always(outs) == Raised(outs) # {}

\* whether an exception raised by a tool leaves ToolNode
Propagates(outs) == Raised(outs) # {} /\ ~handle_tool_errors

----------------------------------------------------------------------------
(* State machine *)

Init ==
    /\ pc = "idle"
    /\ schema = NoValue
    /\ messages = <<>>
    /\ store \in InitStores
    /\ step = 0
    /\ session = 0
    /\ next_id = 1
    /\ result = NoResult
    /\ llm_input = <<>>
    /\ engine = "free"
    /\ handle_tool_errors \in BOOLEAN
    /\ described = NoValue
    /\ schema_writes = 0
    /\ introspected = {}
    /\ question = ""
    /\ unclosed = FALSE

\* mutant: the graph resumes the State the previous call left
sql_agent_resume(q, mode) ==
    /\ pc \in {"idle", END, "raised"}
    /\ session < MaxSessions
    /\ session' = session + 1
    /\ question' = q
    /\ engine' = mode
    /\ messages' = add_messages(messages, <<HumanMessage(uuid(session + 1, 1), q)>>)
    /\ next_id' = 2
    /\ schema' = schema
    /\ step' = 0
    /\ pc' = "get_schema"
    /\ result' = NoResult
    /\ llm_input' = <<>>
    /\ described' = NoValue
    /\ schema_writes' = 0
    /\ UNCHANGED <<store, handle_tool_errors, introspected, unclosed>>

\* sql_agent(question): graph.invoke({"messages": [HumanMessage(question)]})
sql_agent(q, mode) ==
    /\ pc \in {"idle", END, "raised"}
    /\ session < MaxSessions
    /\ session' = session + 1
    /\ question' = q
    /\ engine' = mode
    /\ messages' = add_messages(<<>>, <<HumanMessage(uuid(session + 1, 1), q)>>)
    /\ next_id' = 2
    /\ schema' = NoValue
    /\ step' = 0
    /\ pc' = "get_schema"
    /\ result' = NoResult
    /\ llm_input' = <<>>
    /\ described' = NoValue
    /\ schema_writes' = 0
    /\ UNCHANGED <<store, handle_tool_errors, introspected, unclosed>>

\* node get_schema
GetSchema ==
    /\ pc = "get_schema"
    /\ LET state == [schema |-> schema, messages |-> messages] IN
       \E update \in {get_schema(state, store)} :
           /\ Write(update, Edge("get_schema"))
           /\ store' = get_schema_store(store)
           /\ introspected' = introspected \cup
                  {[store |-> store, after |-> get_schema_store(store),
                    state |-> state, structure |-> update.schema]}
    /\ unclosed' = (unclosed \/ LeavesOpen(store, {SQL_SCHEMA_QUERY, SQL_EXAMPLE_QUERY}))
    /\ UNCHANGED <<session, next_id, llm_input, engine, handle_tool_errors,
                   described, question>>

\* node get_schema_description, the engine answers
Describe ==
    /\ pc = "get_schema_description"
    /\ \E text \in Narratives :
         LET state == [schema |-> schema, messages |-> messages] IN
         /\ llm_input' = DescribeInput(state)
         /\ described' = [t |-> "str", v |-> text]
         /\ Write(get_schema_description(state, text), Edge("get_schema_description"))
    /\ UNCHANGED <<store, session, next_id, engine, handle_tool_errors, introspected,
                   question, unclosed>>

\* node get_schema_description, llm.invoke raises
DescribeFails ==
    /\ pc = "get_schema_description"
    /\ llm_input' = DescribeInput([schema |-> schema, messages |-> messages])
    /\ Raise("EngineError")
    /\ UNCHANGED <<schema, messages, store, session, next_id, engine,
                   handle_tool_errors, described, schema_writes, introspected, question,
                   unclosed>>

\* node get_sql_query, the engine answers, and the conditional edge
Plan ==
    /\ pc = "get_sql_query"
    /\ \E batch \in Batches(engine, messages) :
         LET state  == [schema |-> schema, messages |-> messages]
             update == get_sql_query(state, Response(session, next_id, batch))
         IN  /\ llm_input' = PlanInput(state)
             /\ next_id' = next_id + 1 + Len(batch)
             /\ Write(update, tools_condition(NewMessages(update)))
    /\ UNCHANGED <<store, session, engine, handle_tool_errors, described,
                   introspected, question, unclosed>>

\* node get_sql_query, llm_with_tools.invoke raises
PlanFails ==
    /\ pc = "get_sql_query"
    /\ engine = "free"
    /\ llm_input' = PlanInput([schema |-> schema, messages |-> messages])
    /\ Raise("EngineError")
    /\ UNCHANGED <<schema, messages, store, session, next_id, engine,
                   handle_tool_errors, described, schema_writes, introspected, question,
                   unclosed>>

\* node tools: every call of the last assistant entry is run; the results are
\* appended in the order of the calls
Tools ==
    /\ pc = "tools"
    /\ LET calls == messages[Len(messages)].tool_calls
           n     == Len(calls)
       IN  \E ord \in Orders(n), found \in [1..n -> BOOLEAN] :
             /\ \A i \in 1..n : calls[i].name # "search" => found[i]
             /\ \E run \in {RunCalls(calls, ord, found, 1, store, [i \in 1..n |-> NoValue])} :
                LET outs == run.outs
                    update == [messages |->
                                 [i \in 1..n |-> ToolResult(uuid(session, next_id + i - 1),
                                                       calls[i], outs[i])]]
                IN  /\ store' = run.store
                    /\ unclosed' = (unclosed \/ LeavesOpen(store,
                           {calls[i].args : i \in {j \in 1..n : calls[j].name = "sql_connector"}}))
                    /\ IF Propagates(outs)
                       THEN /\ Raise(outs[Min(Raised(outs))].cls)
                            /\ UNCHANGED <<schema, messages, schema_writes, next_id>>
                       ELSE /\ next_id' = next_id + n
                            /\ Write(update, Edge("tools"))
    /\ UNCHANGED <<session, llm_input, engine, handle_tool_errors, described,
                   introspected, question>>

\* the interpreter's garbage collector reclaims the connection objects left by
\* finished sql_connector calls, which closes them; it may run at any time
Collect ==
    /\ unclosed
    /\ unclosed' = FALSE
    /\ UNCHANGED <<pc, schema, messages, store, step, session, next_id, result,
                   llm_input, engine, handle_tool_errors, described, schema_writes,
                   introspected, question>>

Next ==
    \/ \E q \in Questions, mode \in {"free", "persistent"} : sql_agent(q, mode)
    \/ GetSchema
    \/ Describe
    \/ DescribeFails
    \/ Plan
    \/ PlanFails
    \/ Tools
    \/ Collect

Spec == Init /\ [][Next]_vars

\* a step of graph.invoke: the node that is scheduled runs
Step == GetSchema \/ Describe \/ DescribeFails \/ Plan \/ PlanFails \/ Tools

\* the program run as a script: the one sql_agent call of the __main__ block
main ==
    /\ session = 0
    /\ \E q \in Questions, mode \in {"free", "persistent"} : sql_agent(q, mode)

MainNext == main \/ Step \/ Collect

\* control leaves the node that is scheduled (every step of a node changes pc)
Leave ==
    /\ pc \in {"get_schema", "get_schema_description", "get_sql_query", "tools"}
    /\ pc' \in {"get_schema", "get_schema_description", "get_sql_query", "tools",
               END, "raised"}
    /\ pc' # pc

\* graph.invoke is a loop that runs the scheduled node until none is left or the
\* run aborts; every call a node makes is blocking and resolves, with a value
\* or with an exception: the run does not stay at a node forever
MainSpec == Init /\ [][MainNext]_vars /\ WF_pc(Leave)

----------------------------------------------------------------------------
(* Properties *)

Nodes == {"get_schema", "get_schema_description", "get_sql_query", "tools"}

IsPrefix(a, b) == Len(a) <= Len(b) /\ \A i \in DOMAIN a : a[i] = b[i]

LastCalls(msgs) == msgs[Len(msgs)].tool_calls

\* the tool result entries of msgs that reference the request identifier id
ResultsFor(msgs, id) ==
    {j \in DOMAIN msgs : msgs[j].type = "tool" /\ msgs[j].tool_call_id = id}

\* C1: after every Planner step that produced an assistant entry the next state is
\* tools exactly when the entry carries one or more tool requests and END exactly
\* when it carries none; the only other outcome is the abort of the run at the
\* recursion limit, and END is never entered with tool requests outstanding.
C1_Routing ==
    [][(pc = "get_sql_query" /\ messages' # messages) =>
         LET last == messages'[Len(messages')] IN
         /\ last.type = "ai"
         /\ pc' \in {"tools", END, "raised"}
         /\ pc' = "tools" => Len(last.tool_calls) >= 1
         /\ pc' = END => Len(last.tool_calls) = 0
         /\ pc' = "raised" => step' >= RecursionLimit]_vars

C1_Witness == pc = "tools" /\ Len(LastCalls(messages)) >= 2

\* C2: across every step of a session the message sequence before the step is a
\* prefix of the sequence after it.
C2_AppendOnly == [][(pc \in Nodes) => IsPrefix(messages, messages')]_vars

C2_Witness == pc = "get_sql_query" /\ Len(messages) >= 5

\* C3: whenever the Planner is about to be invoked, every tool request of every
\* assistant entry has exactly one tool result entry referencing its identifier,
\* and that entry comes after the request.
C3_Pairing ==
    pc = "get_sql_query" =>
        \A i \in DOMAIN messages : \A k \in DOMAIN messages[i].tool_calls :
            LET res == ResultsFor(messages, messages[i].tool_calls[k].id) IN
            /\ Cardinality(res) = 1
            /\ \A j \in res : j > i

C3_Witness ==
    /\ pc = "get_sql_query"
    /\ \E i \in DOMAIN messages : Len(messages[i].tool_calls) >= 2

\* C4: sql_connector never raises to its caller: every store query the Planner
\* has requested returns a value (rows or the error text) when it is dispatched.
C4_AdapterNeverRaises ==
    pc = "tools" =>
        \A k \in DOMAIN LastCalls(messages) :
            LET call == LastCalls(messages)[k] IN
            call.name = "sql_connector" =>
                sql_connector(store, call.args).kind = "return"

\* C5: when a store query requested by the Planner fails, the session does not
\* abort: the Dispatcher appends a tool result entry tagged with the request's
\* identifier whose content is exactly the Adapter's error text, and control
\* returns to the Planner (stated for turns that request store queries only).
C5_ErrorAsData ==
    [][(pc = "tools"
        /\ ~Collect
        /\ \A k \in DOMAIN LastCalls(messages) :
               LastCalls(messages)[k].name = "sql_connector") =>
         \A k \in DOMAIN LastCalls(messages) :
             LET call == LastCalls(messages)[k]
                 e    == Execute(store, call.args)
             IN  e.out = "raise" =>
                   /\ pc' = "get_sql_query"
                   /\ \E j \in ResultsFor(messages', call.id) :
                        /\ messages'[j].content.t = "str"
                        /\ messages'[j].content.v = ErrorPrefix \o e.msg]_vars

\* C6: the supersteps of a session never exceed the recursion limit, so a session
\* has at most (RecursionLimit - 1) \div 2 Planner turns; at the limit the run is over.
C6_BoundedRounds ==
    /\ step <= RecursionLimit
    /\ step = RecursionLimit => pc \in {END, "raised"}
    /\ Cardinality({i \in DOMAIN messages : messages[i].type = "ai"})
           <= (RecursionLimit - 1) \div 2

C6_Witness ==
    /\ engine = "persistent"
    /\ \A i \in DOMAIN messages : messages[i].type = "ai" => messages[i].tool_calls # <<>>
    /\ pc = "raised"
    /\ step = RecursionLimit
    /\ result = [kind |-> "raise", exc |-> "GraphRecursionError"]

\* C7: a state returned by sql_agent starts with the caller's question and ends
\* with an assistant entry without tool requests; a state is returned exactly
\* when the run reached END.
C7_ReturnsFinal ==
    /\ (result.kind = "state") <=> (pc = END)
    /\ result.kind = "state" =>
         LET m == result.messages IN
         /\ Len(m) >= 2
         /\ m[1].type = "human" /\ m[1].content = question
         /\ m[Len(m)].type = "ai" /\ m[Len(m)].tool_calls = <<>>

C7_Witness == result.kind = "state" /\ Len(result.messages) >= 4

\* C8: the schema is written once by get_schema (raw structure) and once by
\* get_schema_description (narrative); from the first Planner step on it stays
\* the Describer's narrative, which is the schema of the returned state.
C8_SchemaFrame ==
    /\ pc = "get_schema_description" => schema_writes = 1 /\ schema.t = "list"
    /\ (pc \in {"get_sql_query", "tools", END}) =>
         /\ schema_writes = 2
         /\ described.t = "str"
         /\ schema = described
    /\ result.kind = "state" => result.schema = described

C8_Witness == result.kind = "state" /\ Len(result.messages) >= 6

\* C9: a get_schema call made against the store as an earlier get_schema call
\* found it, or as that call left it, returns the structure the earlier call
\* returned, whatever Session State was passed in.
C9_Idempotent ==
    \A a, b \in introspected :
        (b.store = a.store \/ b.store = a.after) => b.structure = a.structure

\* the earlier call changed the store (it created the file) and the later call,
\* with another state, ran on what it left
C9_Witness ==
    \E a, b \in introspected :
        /\ a.after # a.store
        /\ b.store = a.after
        /\ a.state # b.state

\* C10 as stated: a failure of the web search during Dispatch is never turned
\* into a conversation entry.
C10_SearchFailureNoEntry ==
    \A j \in DOMAIN messages :
        messages[j].type = "tool" /\ messages[j].status = "error" =>
            messages[j].content.v # "DuckDuckGoSearchException"

\* C10 amended: an engine failure during Describe or Plan and a tool exception
\* that leaves ToolNode abort the run: sql_agent raises, nothing is added to
\* the State and the aborted run takes no further step. With ToolNode handling
\* tool errors, Dispatch never aborts: every request gets its result entry, a
\* failed one with status "error". (A garbage collection is no step of the run.)
C10_InfrastructureFailures ==
    [][Collect \/
       /\ pc = "raised" => pc' = "get_schema" /\ session' = session + 1
       /\ (pc # "raised" /\ pc' = "raised") =>
            /\ result'.kind = "raise"
            /\ result'.exc # "GraphRecursionError" =>
                 messages' = messages /\ schema' = schema
       /\ (pc \in {"get_schema_description", "get_sql_query"} /\ pc' = "raised") =>
            result'.exc \in {"EngineError", "GraphRecursionError"}
       /\ (pc = "tools" /\ pc' = "raised") => ~handle_tool_errors
       /\ (pc = "tools" /\ handle_tool_errors) =>
            /\ pc' = "get_sql_query"
            /\ \A k \in DOMAIN LastCalls(messages) :
                   ResultsFor(messages', LastCalls(messages)[k].id) # {}
       /\ (\E j \in DOMAIN messages' : messages'[j].status = "error") =>
            handle_tool_errors]_vars

C10_Witness ==
    /\ pc = "get_sql_query"
    /\ \E j \in DOMAIN messages :
         /\ messages[j].type = "tool"
         /\ messages[j].status = "error"
         /\ messages[j].content.v = "DuckDuckGoSearchException"

\* C11: a session starts in get_schema; get_schema is followed by
\* get_schema_description and that by get_sql_query, each run once, as
\* supersteps 1 and 2; tools is entered only from get_sql_query and is followed
\* by get_sql_query; END is entered only from get_sql_query. A step that
\* enters no state is the abort of the run. (A garbage collection is no step of
\* the run.)
C11_Order ==
    [][Collect \/
       /\ (pc' = "get_schema") <=> (session' = session + 1)
       /\ pc' = "get_schema" => pc \in {"idle", END, "raised"} /\ step' = 0
       /\ pc = "get_schema" => pc' = "get_schema_description" /\ step' = 1
       /\ pc' = "get_schema_description" => pc = "get_schema"
       /\ pc = "get_schema_description" =>
            /\ pc' \in {"get_sql_query", "raised"}
            /\ pc' = "get_sql_query" => step' = 2
       /\ pc' = "get_sql_query" => pc \in {"get_schema_description", "tools"}
       /\ pc' = "tools" => pc = "get_sql_query" /\ step' >= 3
       /\ pc = "tools" => pc' \in {"get_sql_query", "raised"}
       /\ pc' = END => pc = "get_sql_query"]_vars

C11_Witness ==
    /\ pc = END
    /\ \E i \in DOMAIN messages : messages[i].type = "tool"

\* C12 as stated: when the sample query of get_schema comes back from
\* sql_connector as an error text, the structure get_schema returns is that
\* text, unchanged.
C12_ErrorUnchanged ==
    \A a \in introspected :
        LET db_examples == sql_connector(a.store, SQL_EXAMPLE_QUERY).val
        IN  db_examples.t = "str" => a.structure = db_examples

\* C13: for a store whose table has n columns and k sampled rows (k at most
\* ExampleLimit), get_schema returns n elements in column order; element i is
\* the name and type of column i followed by the i-th value of each sampled
\* row in row order.
C13_ColumnAligned ==
    \A a \in introspected :
        a.store.table =>
            LET cols == a.store.cols
                k    == IF Len(a.store.rows) < ExampleLimit
                        THEN Len(a.store.rows) ELSE ExampleLimit
                out  == a.structure.v
            IN  /\ a.structure.t = "list"
                /\ Len(out) = Len(cols)
                /\ \A i \in DOMAIN cols :
                     /\ Len(out[i]) = 1 + k
                     /\ out[i][1] = cols[i]
                     /\ \A r \in 1..k : out[i][1 + r] = a.store.rows[r][i]

C13_Witness ==
    \E a \in introspected :
        /\ a.store.table
        /\ Len(a.store.cols) >= 2
        /\ Len(a.store.rows) >= 2
        /\ a.store.rows[1] # a.store.rows[2]

\* C14 as stated: after any sequence of sql_connector calls no connection
\* opened by a finished call is still open.
C14_ConnectionsClosed == ~unclosed

\* C15 as stated: no step of a session changes the contents of the store (its
\* table, columns and rows), so the store after a session equals the store
\* before it.
C15_StoreFixed ==
    [][<<store.table, store.cols, store.rows>>' = <<store.table, store.cols, store.rows>>]_vars

\* C16: a sql_agent call starts with a message sequence holding only its own
\* question and with no schema; get_schema and get_schema_description have run
\* in this call before the Planner sees the schema; every entry of the State
\* and of an engine input that has an identifier was created in this call.
C16_NoCarryOver ==
    LET Own(id) == id[1] = session IN
    /\ pc = "get_schema" =>
         /\ messages = <<HumanMessage(uuid(session, 1), question)>>
         /\ schema = NoValue
         /\ step = 0
    /\ (pc \in {"get_sql_query", "tools", END}) =>
         schema_writes = 2 /\ schema = described
    /\ pc # "idle" =>
         /\ \A i \in DOMAIN messages :
              /\ Own(messages[i].id)
              /\ \A k \in DOMAIN messages[i].tool_calls :
                   Own(messages[i].tool_calls[k].id)
              /\ messages[i].type = "tool" => Own(messages[i].tool_call_id)
         /\ \A i \in DOMAIN llm_input :
              llm_input[i].id = NoId \/ Own(llm_input[i].id)
    /\ result.kind = "state" =>
         \A i \in DOMAIN result.messages : Own(result.messages[i].id)

C16_Witness ==
    /\ session = 2
    /\ pc = END
    /\ Len(llm_input) >= 5
    /\ \E i \in DOMAIN messages : messages[i].type = "tool"

\* C17: the engine input of every Planner invocation is the system instruction,
\* then a human message restating the current schema narrative, then every
\* entry of the message sequence in order.
C17_PlannerInput ==
    [][(pc = "get_sql_query" /\ ~Collect) =>
         /\ Len(llm_input') = 2 + Len(messages)
         /\ llm_input'[1].type = "system"
         /\ llm_input'[1].content = SYSTEM_PROMPT
         /\ llm_input'[2].type = "human"
         /\ llm_input'[2].content = [t |-> "schema_details", v |-> described]
         /\ \A i \in DOMAIN messages : llm_input'[2 + i] = messages[i]]_vars

C17_Witness ==
    /\ pc \in {"tools", END}
    /\ Len(llm_input) >= 6
    /\ llm_input[1].content = SYSTEM_PROMPT
    /\ \E i \in DOMAIN llm_input : llm_input[i].type = "tool"

\* C18: a Planner turn appends exactly one entry, an assistant entry; the
\* system instruction and the schema restatement are never entries of the
\* message sequence; whenever the Planner is about to run or the run has ended,
\* after m Planner turns whose r tool requests were dispatched, the sequence
\* has 1 + m + r entries (the superstep counter gives m).
C18_OneEntryPerTurn ==
    [][/\ (pc = "get_sql_query" /\ pc' \in {"tools", END}) =>
            /\ Len(messages') = Len(messages) + 1
            /\ IsPrefix(messages, messages')
            /\ messages'[Len(messages')].type = "ai"
       /\ \A i \in DOMAIN messages' :
            /\ messages'[i].type \in {"human", "ai", "tool"}
            /\ messages'[i].type = "human" => i = 1 /\ messages'[i].content = question'
       /\ pc' = "get_sql_query" =>
            Len(messages') = 1 + ((step' - 2) \div 2) + Requested(messages')
       /\ pc' = END =>
            Len(messages') = 1 + ((step' - 1) \div 2) + Requested(messages')]_vars

C18_Witness ==
    /\ pc = END
    /\ Requested(messages) >= 2
    /\ Len(messages) >= 5

\* C19: until the first Planner invocation the message sequence is exactly the
\* caller's question, and the engine input of get_schema_description (whether
\* the engine answers or fails) is its fixed instruction followed by the text
\* of the structure get_schema returned in this call, nothing else.
C19_DiscoveryFrame ==
    LET asked      == <<HumanMessage(uuid(session, 1), question)>>
        first_plan == pc = "get_sql_query" /\ step = 2
        desc_fail  == /\ pc = "raised"
                      /\ result = [kind |-> "raise", exc |-> "EngineError"]
                      /\ step = 1
    IN  /\ (pc \in {"get_schema", "get_schema_description"} \/ first_plan \/ desc_fail) =>
             messages = asked
        /\ (first_plan \/ desc_fail) =>
             /\ Len(llm_input) = 2
             /\ llm_input[1] = SystemMessage(SQL_SCHEMA_DETAILS_PROMPT)
             /\ llm_input[2].type = "human"
             /\ llm_input[2].content.t = "repr"
             /\ llm_input[2].content.v.t = "list"
             /\ \E a \in introspected :
                  /\ a.state.messages = asked
                  /\ a.after = store
                  /\ a.structure = llm_input[2].content.v

C19_Witness ==
    /\ pc = "get_sql_query"
    /\ step = 2
    /\ session = 2
    /\ Len(llm_input) = 2
    /\ llm_input[2].content.v.v # <<>>

\* the Planner has produced an entry without tool requests
Answered ==
    \E i \in DOMAIN messages : messages[i].type = "ai" /\ messages[i].tool_calls = <<>>

\* C20 as stated: once the Planner has produced an entry without tool
\* requests the session reaches END and sql_agent returns the State.
C20_AnswerLeadsToDone == Answered ~> (pc = END /\ result.kind = "state")

\* C20 amended: in every state of a run some node can step; every run ends, at
\* END or by an abort; the run is aborted by the recursion limit only at
\* superstep RecursionLimit; once the Planner has produced an entry without
\* tool requests the run is at END and sql_agent has returned the State, unless
\* that entry came with superstep RecursionLimit and the limit aborted the run.
C20_TerminatesWithinLimit ==
    /\ [](pc \in Nodes => ENABLED <<Step>>_vars)
    /\ (pc \in Nodes) ~> (pc \in {END, "raised"})
    /\ []((pc = "raised" /\ result.exc = "GraphRecursionError") => step = RecursionLimit)
    /\ [](Answered =>
            \/ /\ pc = END
               /\ result = [kind |-> "state", schema |-> schema, messages |-> messages]
            \/ /\ step = RecursionLimit
               /\ pc = "raised"
               /\ result = [kind |-> "raise", exc |-> "GraphRecursionError"])

\* the Planner answers on its last turn below the limit, after ten rounds of
\* tool requests
C20_Witness ==
    /\ pc = END
    /\ result.kind = "state"
    /\ step = RecursionLimit - 2
    /\ Answered

====
